---- MODULE Spec2Model ----
(***************************************************************************)
(* Model of streamlit_app.py: the greedy word-wrap helper get_lines, the    *)
(* DeepAI image step, and the multi-panel infographic assembly.             *)
(*                                                                         *)
(* A Python string is a sequence of one-character strings.  Lengths are in  *)
(* fifths of a pixel where the source uses fractions (36 * 1.2 = 43.2 px),  *)
(* see Px; font measurements are whole pixels.                              *)
(***************************************************************************)
EXTENDS Integers, Sequences, FiniteSets, TLC

\* ------------------------------------------------------------- bounds
MaxLen == 6        \* longest text handed to get_lines on its own
MaxW == 5          \* widest max_width tried, in glyph advances
MaxPoints == 2     \* most story points returned by the story breakdown
MaxAppLen == 3     \* longest translated_text of a story point

\* ------------------------------------------------------------- strings
Space == " "
Tab == "\t"
\* characters str.strip() removes; str.split(' ') separates on Space only
Whitespace == {Space, Tab}
Alphabet == {"a", "W", Space, Tab}
AppAlphabet == {"W", Space}

RECURSIVE StringsUpTo(_, _)
StringsUpTo(chars, n) ==
    IF n = 0 THEN {<<>>}
    ELSE LET shorter == StringsUpTo(chars, n - 1)
         IN  shorter \cup {<<c>> \o s : c \in chars, s \in {t \in shorter : Len(t) = n - 1}}

\* text.split(' '): one piece per space character plus one, empty pieces kept
RECURSIVE split(_)
split(text) ==
    IF text = <<>> THEN << <<>> >>
    ELSE LET rest == split(Tail(text))
         IN  IF Head(text) = Space
             THEN << <<>> >> \o rest
             ELSE << <<Head(text)>> \o Head(rest) >> \o Tail(rest)

RECURSIVE lstrip(_)
lstrip(s) ==
    IF s = <<>> THEN <<>>
    ELSE IF Head(s) \in Whitespace THEN lstrip(Tail(s)) ELSE s

RECURSIVE rstrip(_)
rstrip(s) ==
    IF s = <<>> THEN <<>>
    ELSE IF s[Len(s)] \in Whitespace THEN rstrip(SubSeq(s, 1, Len(s) - 1)) ELSE s

\* str.strip(): leading and trailing whitespace of every kind removed
strip(s) == rstrip(lstrip(s))

\* advance of one glyph of the loaded font, in pixels
CharWidth(c) == IF c = "W" THEN 495 ELSE 165

\* bbox = draw_context.textbbox((0, 0), s, font); text_width = bbox[2] - bbox[0]
RECURSIVE textbbox_width(_)
textbbox_width(s) ==
    IF s = <<>> THEN 0 ELSE CharWidth(Head(s)) + textbbox_width(Tail(s))

\* ------------------------------------------------------------- get_lines
\* test_line = (current_line + ' ' + word).strip()
TestLineNoStrip(current_line, word) == current_line \o <<Space>> \o word
TestLine(current_line, word) == strip(current_line \o <<Space>> \o word)

\* the comparison of line 41
FitsOrEqual(text_width, max_width) == text_width <= max_width
Fits(text_width, max_width) == text_width < max_width

\* one iteration of the for loop: the state after 'word' is handled
LoopBodyDropsLine(ls, cur, word, max_width) ==
    LET test_line == TestLine(cur, word)
        text_width == textbbox_width(test_line)
    IN  IF Fits(text_width, max_width)
        THEN [lines |-> ls, current_line |-> test_line,
              test_line |-> test_line, text_width |-> text_width]
        ELSE [lines |-> ls, current_line |-> word,
              test_line |-> test_line, text_width |-> text_width]
LoopBody(ls, cur, word, max_width) ==
    LET test_line == TestLine(cur, word)
        text_width == textbbox_width(test_line)
    IN  IF Fits(text_width, max_width)
        THEN [lines |-> ls, current_line |-> test_line,
              test_line |-> test_line, text_width |-> text_width]
        ELSE [lines |-> IF cur # <<>> THEN Append(ls, cur) ELSE ls,
              current_line |-> word,
              test_line |-> test_line, text_width |-> text_width]

\* the flush after the loop and the return
FinalLines(ls, cur) == IF cur # <<>> THEN Append(ls, cur) ELSE ls

RECURSIVE WrapFrom(_, _, _, _, _)
WrapFrom(ws, k, ls, cur, max_width) ==
    IF k > Len(ws) THEN FinalLines(ls, cur)
    ELSE LET r == LoopBody(ls, cur, ws[k], max_width)
         IN  WrapFrom(ws, k + 1, r.lines, r.current_line, max_width)

\* get_lines as one call, as the assembly uses it
get_lines(text, max_width) == WrapFrom(split(text), 1, <<>>, <<>>, max_width)

\* ------------------------------------------------------------- state
VARIABLES
    pc,                 \* position of the running code
    text, max_width,    \* arguments of the get_lines call under study
    words, idx,         \* words and the number of them already handled
    lines, current_line,
    test_line, text_width,   \* locals of the last iteration
    measure_calls,      \* calls of draw_context.textbbox made so far
    story_points_data,  \* the parsed story breakdown
    point_idx,          \* story points the image loop has handled
    generated_images_and_texts,
    max_text_height_per_panel, panel_content_height,
    total_infographic_height,
    main_img_height,    \* height of the canvas main_img
    current_y_offset,
    drawn               \* what the drawing loop has put on main_img, per panel

wrapVars == <<text, max_width, words, idx, lines, current_line,
              test_line, text_width, measure_calls>>
appVars == <<story_points_data, point_idx, generated_images_and_texts,
             max_text_height_per_panel, panel_content_height,
             total_infographic_height, main_img_height, current_y_offset, drawn>>
vars == <<pc, wrapVars, appVars>>

\* nothing of the page has run
AppIdle ==
    /\ story_points_data = <<>>
    /\ point_idx = 0
    /\ generated_images_and_texts = <<>>
    /\ max_text_height_per_panel = 0
    /\ panel_content_height = 0
    /\ total_infographic_height = 0
    /\ main_img_height = 0
    /\ current_y_offset = 0
    /\ drawn = <<>>

\* no get_lines call is being stepped through
WrapIdle ==
    /\ text = <<>>
    /\ max_width = 0
    /\ words = <<>>
    /\ idx = 0
    /\ lines = <<>>
    /\ current_line = <<>>
    /\ test_line = <<>>
    /\ text_width = 0
    /\ measure_calls = 0

Texts == StringsUpTo(Alphabet, MaxLen)
MaxWidths == {k * CharWidth("a") : k \in 1..MaxW}

\* a call get_lines(draw, text, font, max_width), lines 32-34 executed
WrapInit ==
    /\ pc = "wrap_loop"
    /\ text \in Texts
    /\ max_width \in MaxWidths
    /\ words = split(text)
    /\ idx = 0
    /\ lines = <<>>
    /\ current_line = <<>>
    /\ test_line = <<>>
    /\ text_width = 0
    /\ measure_calls = 0
    /\ AppIdle

\* lines 35-46, one word
WrapLoop ==
    /\ pc = "wrap_loop"
    /\ idx < Len(words)
    /\ LET r == LoopBody(lines, current_line, words[idx + 1], max_width)
       IN  /\ lines' = r.lines
           /\ current_line' = r.current_line
           /\ test_line' = r.test_line
           /\ text_width' = r.text_width
    /\ idx' = idx + 1
    /\ measure_calls' = measure_calls + 1
    /\ UNCHANGED <<pc, text, max_width, words, appVars>>

\* lines 47-49
WrapReturn ==
    /\ pc = "wrap_loop"
    /\ idx = Len(words)
    /\ lines' = FinalLines(lines, current_line)
    /\ pc' = "wrap_done"
    /\ UNCHANGED <<text, max_width, words, idx, current_line,
                   test_line, text_width, measure_calls, appVars>>

WrapNext == WrapLoop \/ WrapReturn

SpecWrap == WrapInit /\ [][WrapNext]_vars

\* ------------------------------------------------------------- image generation
None == "None"

\* names bound at module level before the button handler runs
ModuleGlobals == {"FONT_DIR", "LANGUAGE_FONTS", "GEMINI_API_KEY", "GEMINI_API_URL",
                  "DEEPAI_API_KEY", "DEEPAI_IMAGE_API_URL"}

\* what the DeepAI service would answer
Responses == {"output_url", "no_output_url", "request_failed"}

\* The URL is read through the name DEEPAAI_IMAGE_API_URL; an unbound name
\* raises NameError inside the try, which 'except Exception' turns into None.
generate_image_with_deepai(prompt, response) ==
    IF "DEEPAAI_IMAGE_API_URL" \notin ModuleGlobals THEN None
    ELSE IF response = "output_url" THEN "image" ELSE None

\* body of the image loop for one story point
AppendPanelSkippingFailure(list, point, img) ==
    IF img # None
    THEN Append(list, [image |-> img, translated_text |-> point.translated_text])
    ELSE list
AppendPanel(list, point, img) ==
    IF img # None
    THEN Append(list, [image |-> img, translated_text |-> point.translated_text])
    ELSE Append(list, [image |-> "blank_img", translated_text |-> point.translated_text])

\* ------------------------------------------------------------- assembly
panel_width == 700
image_display_height == 300
text_font_size == 36
panel_vertical_padding == 40
panel_spacing == 30

\* whole pixels as fifths of a pixel, and int() of a length
Px(n) == n * 5
IntPx(v) == Px(v \div 5)

\* text_font_size * 1.2
line_height == (Px(text_font_size) * 12) \div 10

Max(a, b) == IF a >= b THEN a ELSE b

\* the loop that sizes the text area
\* the same loop keeping only the last item's height
LastTextHeight(items) ==
    IF items = <<>> THEN 0
    ELSE Len(get_lines(items[Len(items)].translated_text, panel_width - 40)) * line_height
RECURSIVE MaxTextHeight(_)
MaxTextHeight(items) ==
    IF items = <<>> THEN 0
    ELSE Max(MaxTextHeight(SubSeq(items, 1, Len(items) - 1)),
             Len(get_lines(items[Len(items)].translated_text, panel_width - 40)) * line_height)

PanelContentHeight(maxText) ==
    Px(image_display_height) + maxText + Px(panel_vertical_padding) * 2

TotalHeight(n, contentHeight) ==
    n * contentHeight + (n - 1) * Px(panel_spacing) + Px(60)

\* what one iteration of the drawing loop puts on the canvas
DrawPanelAt(top, panel_content, maxText, contentHeight) ==
    LET image_y_pos == top + Px(20)
        resized_height == Px(image_display_height - 40)
        lines_to_draw == get_lines(panel_content.translated_text, panel_width - 40)
        text_block_height == Len(lines_to_draw) * line_height
        text_area_start_y == image_y_pos + resized_height + Px(10)
        text_y_start_for_lines == text_area_start_y + (maxText - text_block_height) \div 2
    IN  [panel_top_y |-> top,
         rect_bottom_y |-> top + contentHeight - Px(panel_vertical_padding),
         text_area_start_y |-> text_area_start_y,
         text_block_height |-> text_block_height,
         line_ys |-> [j \in 1..Len(lines_to_draw) |->
                         text_y_start_for_lines + (j - 1) * line_height]]

AppTexts == StringsUpTo(AppAlphabet, MaxAppLen)
StoryPoints == {[image_prompt |-> "prompt", translated_text |-> t] : t \in AppTexts}

RECURSIVE SeqsUpTo(_, _)
SeqsUpTo(S, n) ==
    IF n = 0 THEN {<<>>}
    ELSE LET shorter == SeqsUpTo(S, n - 1)
         IN  shorter \cup {Append(q, x) : q \in {r \in shorter : Len(r) = n - 1}, x \in S}

StoryLists == SeqsUpTo(StoryPoints, MaxPoints)

AppInit ==
    /\ pc = "start"
    /\ WrapIdle
    /\ AppIdle

\* lines 93-171: the button is pressed and the story breakdown is fetched
StoryBreakdown ==
    /\ pc = "start"
    /\ \E ok \in BOOLEAN, pts \in StoryLists :
          IF ok /\ pts # <<>>
          THEN /\ story_points_data' = pts
               /\ pc' = "generate"
          ELSE /\ story_points_data' = <<>>
               /\ pc' = "stopped"
    /\ UNCHANGED <<wrapVars, point_idx, generated_images_and_texts,
                   max_text_height_per_panel, panel_content_height,
                   total_infographic_height, main_img_height, current_y_offset, drawn>>

\* lines 175-196: one story point
GenerateImage ==
    /\ pc = "generate"
    /\ point_idx < Len(story_points_data)
    /\ \E response \in Responses :
          LET point == story_points_data[point_idx + 1]
              img == generate_image_with_deepai(point.image_prompt, response)
          IN  generated_images_and_texts' =
                  AppendPanel(generated_images_and_texts, point, img)
    /\ point_idx' = point_idx + 1
    /\ UNCHANGED <<pc, wrapVars, story_points_data,
                   max_text_height_per_panel, panel_content_height,
                   total_infographic_height, main_img_height, current_y_offset, drawn>>

\* lines 199-246: the checks after the loop, the font, the canvas
PrepareCanvas ==
    /\ pc = "generate"
    /\ point_idx = Len(story_points_data)
    /\ \E font_found \in BOOLEAN :
          IF generated_images_and_texts = <<>> \/ ~font_found
          THEN /\ pc' = "stopped"
               /\ UNCHANGED <<max_text_height_per_panel, panel_content_height,
                              total_infographic_height, main_img_height,
                              current_y_offset>>
          ELSE LET maxText == MaxTextHeight(generated_images_and_texts)
                   contentHeight == PanelContentHeight(maxText)
                   total == TotalHeight(Len(generated_images_and_texts), contentHeight)
               IN  /\ max_text_height_per_panel' = maxText
                   /\ panel_content_height' = contentHeight
                   /\ total_infographic_height' = total
                   /\ main_img_height' = IntPx(total)
                   /\ current_y_offset' = Px(30)
                   /\ pc' = "draw"
    /\ UNCHANGED <<wrapVars, story_points_data, point_idx,
                   generated_images_and_texts, drawn>>

\* lines 248-292: one panel
DrawPanel ==
    /\ pc = "draw"
    /\ Len(drawn) < Len(generated_images_and_texts)
    /\ drawn' = Append(drawn,
                       DrawPanelAt(current_y_offset,
                                   generated_images_and_texts[Len(drawn) + 1],
                                   max_text_height_per_panel, panel_content_height))
    /\ current_y_offset' = current_y_offset + panel_content_height + Px(panel_spacing)
    /\ UNCHANGED <<pc, wrapVars, story_points_data, point_idx,
                   generated_images_and_texts, max_text_height_per_panel,
                   panel_content_height, total_infographic_height, main_img_height>>

\* lines 294-304
Display ==
    /\ pc = "draw"
    /\ Len(drawn) = Len(generated_images_and_texts)
    /\ pc' = "done"
    /\ UNCHANGED <<wrapVars, appVars>>

Next == StoryBreakdown \/ GenerateImage \/ PrepareCanvas \/ DrawPanel \/ Display

Spec == AppInit /\ [][Next]_vars

\* ------------------------------------------------------------- wrapText properties
NonEmpty(s) == s # <<>>

\* pieces of s between whitespace characters, empty pieces kept
RECURSIVE SplitOnWhitespace(_)
SplitOnWhitespace(s) ==
    IF s = <<>> THEN << <<>> >>
    ELSE LET rest == SplitOnWhitespace(Tail(s))
         IN  IF Head(s) \in Whitespace
             THEN << <<>> >> \o rest
             ELSE << <<Head(s)>> \o Head(rest) >> \o Tail(rest)

\* the whitespace-delimited tokens of s, in order
Tokens(s) == SelectSeq(SplitOnWhitespace(s), NonEmpty)

\* ' '.join(ls)
RECURSIVE JoinLines(_)
JoinLines(ls) ==
    IF ls = <<>> THEN <<>>
    ELSE IF Len(ls) = 1 THEN ls[1]
    ELSE ls[1] \o <<Space>> \o JoinLines(Tail(ls))

OnlyWhitespace(s) == \A k \in 1..Len(s) : s[k] \in Whitespace
TooWide(token) == textbbox_width(token) >= max_width
Returned == pc = "wrap_done"

\* C1: the returned lines, joined with single spaces, have exactly the
\* whitespace-delimited tokens of text, in order, and there is at least one
\* line when text has a token.
C1_TokensPreserved ==
    Returned =>
        /\ Tokens(JoinLines(lines)) = Tokens(text)
        /\ (Tokens(text) # <<>> => lines # <<>>)

\* leading and repeated whitespace, several tokens, more than one line
C1_Witness ==
    /\ Returned
    /\ Len(text) >= 2 /\ text[1] \in Whitespace
    /\ \E k \in 1..(Len(text) - 1) : text[k] \in Whitespace /\ text[k + 1] \in Whitespace
    /\ text[Len(text)] \in Whitespace
    /\ Len(Tokens(text)) >= 2
    /\ Len(lines) >= 2

\* C2: a returned line of more than one token is narrower than max_width.
C2_MultiTokenLinesFit ==
    Returned =>
        \A k \in 1..Len(lines) :
            Len(Tokens(lines[k])) > 1 => textbbox_width(lines[k]) < max_width

\* C3: a text of whitespace only (or empty) yields no lines at all.
C3_WhitespaceOnlyGivesNoLines ==
    (Returned /\ OnlyWhitespace(text)) => lines = <<>>

C3_Witness ==
    /\ Returned
    /\ OnlyWhitespace(text)
    /\ Len(text) >= 3
    /\ \E j, k \in 1..Len(text) : text[j] = Space /\ text[k] = Tab
    /\ lines = <<>>

\* C4: a token at least max_width wide is alone on its line.
C4_OverflowTokenAlone ==
    Returned =>
        \A k \in 1..Len(lines) :
            (\E t \in 1..Len(Tokens(lines[k])) : TooWide(Tokens(lines[k])[t]))
                => Len(Tokens(lines[k])) = 1

\* C5: when get_lines returns it has measured at most once per token of text.
C5_OneMeasurementPerToken ==
    Returned => measure_calls <= Len(Tokens(text))

\* C7: a candidate line is kept only when its width is strictly below
\* max_width; at equal width the word starts a new line.
C7_StrictLessThan ==
    idx > 0 =>
        /\ (text_width < max_width => current_line = test_line)
        /\ (text_width >= max_width => current_line = words[idx])

\* a candidate of several words measuring exactly max_width was rejected
C7_Witness ==
    /\ idx > 0
    /\ text_width = max_width
    /\ Len(Tokens(test_line)) >= 2
    /\ test_line # words[idx]
    /\ current_line = words[idx]

\* C8: for consecutive returned lines, the earlier line plus a space plus the
\* first token of the later line does not fit.
C8_GreedyFill ==
    Returned =>
        \A k \in 1..(Len(lines) - 1) :
            Tokens(lines[k + 1]) # <<>> =>
                textbbox_width(lines[k] \o <<Space>> \o Tokens(lines[k + 1])[1]) >= max_width

\* ------------------------------------------------------------- assembly properties
ImagePhaseOver ==
    \/ pc = "generate" /\ point_idx = Len(story_points_data)
    \/ pc \in {"draw", "done"}

\* C10: after the image loop there is one entry per story point, in order,
\* each with that point's translated_text, also where generation failed.
C10_OneEntryPerStoryPoint ==
    ImagePhaseOver =>
        /\ Len(generated_images_and_texts) = Len(story_points_data)
        /\ \A k \in 1..Len(story_points_data) :
               generated_images_and_texts[k].translated_text
                   = story_points_data[k].translated_text

\* two points with different texts, one of them a placeholder for a failure
C10_Witness ==
    /\ ImagePhaseOver
    /\ Len(story_points_data) >= 2
    /\ story_points_data[1].translated_text # story_points_data[2].translated_text
    /\ Len(generated_images_and_texts) = Len(story_points_data)
    /\ \E k \in 1..Len(generated_images_and_texts) :
           generated_images_and_texts[k].image = "blank_img"

\* C6: in the text area (top text_area_start_y, height
\* max_text_height_per_panel) the first line is anchored at
\* (height - lineCount*line_height)/2 + line_height/2 below the top, and
\* line j a further j*line_height down.
C6_CenterBlockStartY ==
    \A k \in 1..Len(drawn) :
        LET p == drawn[k]
            n == Len(p.line_ys)
        IN  n >= 1 =>
              /\ p.line_ys[1] - p.text_area_start_y
                    = (max_text_height_per_panel - n * line_height) \div 2
                      + line_height \div 2
              /\ \A j \in 1..n : p.line_ys[j] = p.line_ys[1] + (j - 1) * line_height

\* C9: every drawn line, as a band of line_height around its anchor, is inside
\* its panel's rectangle, the rectangle is inside the canvas, and no text
\* block is taller than max_text_height_per_panel.
C9_NoTextCutOff ==
    \A k \in 1..Len(drawn) :
        LET p == drawn[k]
        IN  /\ p.text_block_height <= max_text_height_per_panel
            /\ 0 <= p.panel_top_y
            /\ p.panel_top_y <= p.rect_bottom_y
            /\ p.rect_bottom_y <= main_img_height
            /\ \A j \in 1..Len(p.line_ys) :
                   /\ p.panel_top_y <= p.line_ys[j] - line_height \div 2
                   /\ p.line_ys[j] + line_height \div 2 <= p.rect_bottom_y

\* all panels drawn, with different numbers of lines, one of them with two
C9_Witness ==
    /\ pc = "done"
    /\ Len(drawn) >= 2
    /\ \E j, k \in 1..Len(drawn) :
           /\ Len(drawn[j].line_ys) >= 2
           /\ Len(drawn[k].line_ys) = 1
    /\ total_infographic_height > main_img_height

====
